---------------------------- MODULE Spec2Model ----------------------------
(***************************************************************************)
(* chedoro: a personal activity-status tracker.                            *)
(*                                                                         *)
(* The model follows the component that holds the zustand store, the       *)
(* duration codec and the polling view (src/unnamed/part_000).             *)
(*                                                                         *)
(* Time.  A JavaScript Date is a count of milliseconds.  TLC's integers    *)
(* are 32 bits wide and 31 days of milliseconds do not fit, so the clock   *)
(* counts ticks of 1/TicksPerS second.  Everything the code computes in    *)
(* whole seconds (differenceInSeconds) truncates the tick difference       *)
(* toward zero exactly as date-fns truncates the millisecond difference.   *)
(*                                                                         *)
(* Status names.  The emoji names of the source are written in ASCII:      *)
(*   "brain" = U+1F9E0, "cool" = U+1F60E, "smile" = U+1F60A,               *)
(*   "cross" = U+274C,  "sleep" = U+1F634 (a status of the earlier         *)
(*   revision src/src/App.tsx, absent from the current default list).      *)
(***************************************************************************)
EXTENDS Integers, Sequences, FiniteSets, TLC

VARIABLES
    now,                   \* the wall clock, in ticks (what new Date() returns)
    steps,                 \* how many steps have been taken (model bound)
    statuses,              \* Store.statuses
    records,               \* Store.records
    call,                  \* the store call that has just returned: its name,
                           \* arguments, the error thrown, how many records it
                           \* pruned, what it returned ("none" once the clock
                           \* has moved on)
    loop,                  \* the event loop: the handler that is running and
                           \* the part of it that is still to run
    manyClick,             \* one ManyClickDiv: its props, its count, when its
                           \* interval fires next, and the clicks it has had
    app,                   \* App's polling effect: whether App is mounted,
                           \* the intervals that are set, the one its cleanup
                           \* will clear
    codecPc,               \* codec harness: which step was applied last
    durationS,             \* codec harness: the seconds given to the formatter
    durationString,        \* codec harness: the text given to the parser
    parsed,                \* codec harness: result of the last parse
    parsedPlain            \* codec harness: result of parsing the unsigned text

storeVars == <<statuses, records>>
codecVars == <<codecPc, durationS, durationString, parsed, parsedPlain>>
viewVars  == <<manyClick, app>>
vars      == <<now, steps, statuses, records, call, loop, manyClick, app,
               codecPc, durationS, durationString, parsed, parsedPlain>>

--------------------------------------------------------------------------
(* Bounds of the model *)

TicksPerS == 2         \* clock resolution: ticks per second
MaxSteps == 4          \* calls and clock movements in one run
MaxDurationS == 3700   \* codec: largest duration given to the formatter
MaxTextLen == 5        \* codec: longest text given to the parser

(* Program constants *)

tooShortDurationS == 3
tooOldDays == 30

SPerDay == 24 * 60 * 60
TicksPerDay == SPerDay * TicksPerS

(* Optional values: a field that is null / undefined is the empty sequence *)
None == <<>>
Some(x) == <<x>>
IsSome(o) == o # <<>>
Val(o) == o[1]

Abs(x) == IF x < 0 THEN -x ELSE x
\* Math.trunc(a / b) for b > 0
TruncDiv(a, b) == IF a >= 0 THEN a \div b ELSE -((-a) \div b)

\* date-fns: whole seconds between two Dates, truncated toward zero
differenceInSeconds(later, earlier) == TruncDiv(later - earlier, TicksPerS)
\* date-fns: same local calendar day
isSameDay(a, b) == (a \div TicksPerDay) = (b \div TicksPerDay)
subDays(date, amount) == date - amount * TicksPerDay
subSeconds(date, amount) == date - amount * TicksPerS
isBefore(date, dateToCompare) == date < dateToCompare

--------------------------------------------------------------------------
(* The duration codec.  A string is a sequence of one-character strings.    *)

Digits == <<"0", "1", "2", "3", "4", "5", "6", "7", "8", "9">>
IsDigit(c) == \E i \in 1..10 : Digits[i] = c
DigitVal(c) == (CHOOSE i \in 1..10 : Digits[i] = c) - 1

\* a % b of JavaScript: the remainder has the sign of the dividend (b > 0)
JsRem(a, b) == a - b * TruncDiv(a, b)
\* Math.floor(a / b) for b > 0
FloorDiv(a, b) == a \div b

RECURSIVE Pow10(_)
Pow10(k) == IF k = 0 THEN 1 ELSE 10 * Pow10(k - 1)

RECURSIVE NatToString(_)
NatToString(n) ==
    IF n < 10 THEN <<Digits[n + 1]>>
    ELSE NatToString(n \div 10) \o <<Digits[(n % 10) + 1]>>

\* Number.prototype.toString of an integer
toString(n) == IF n < 0 THEN <<"-">> \o NatToString(-n) ELSE NatToString(n)

\* String.prototype.padStart(2, '0')
pad(value) ==
    LET str == toString(value)
    IN  IF Len(str) < 2 THEN <<"0">> \o str ELSE str

\* Variant of the formatter: the minutes are not reduced modulo 60
getRecordDurationStringByDurationSNoWrap(dS) ==
    LET hours == FloorDiv(dS, 3600)
        minutes == FloorDiv(dS, 60)
        seconds == JsRem(dS, 60)
        hoursString == IF hours > 0 THEN toString(hours) \o <<":">> ELSE <<>>
        minuteString == IF hours > 0 THEN pad(minutes) \o <<":">>
                        ELSE toString(minutes) \o <<":">>
    IN  hoursString \o minuteString \o pad(seconds)

getRecordDurationStringByDurationS(dS) ==
    LET hours == FloorDiv(dS, 3600)
        minutes == JsRem(FloorDiv(dS, 60), 60)
        seconds == JsRem(dS, 60)
        hoursString == IF hours > 0 THEN toString(hours) \o <<":">> ELSE <<>>
        minuteString == IF hours > 0 THEN pad(minutes) \o <<":">>
                        ELSE toString(minutes) \o <<":">>
    IN  hoursString \o minuteString \o pad(seconds)

\* String.prototype.split(':'): always at least one part
RECURSIVE SplitFrom(_, _)
SplitFrom(str, part) ==
    IF str = <<>> THEN <<part>>
    ELSE IF Head(str) = ":" THEN <<part>> \o SplitFrom(Tail(str), <<>>)
         ELSE SplitFrom(Tail(str), Append(part, Head(str)))

split(str) == SplitFrom(str, <<>>)

\* A JavaScript number that Number() can give for the characters modelled:
\* NaN, or the decimal fraction num / den (den a power of ten, lowest terms)
NaN == [nan |-> TRUE, num |-> 0, den |-> 1]
RECURSIVE Num(_, _)
Num(num, den) ==
    IF den > 1 /\ num % 10 = 0 THEN Num(num \div 10, den \div 10)
    ELSE [nan |-> FALSE, num |-> num, den |-> den]

Max(a, b) == IF a >= b THEN a ELSE b
NumNeg(x) == [x EXCEPT !.num = -x.num]
NumAdd(x, y) ==
    LET den == Max(x.den, y.den)
    IN  Num(x.num * (den \div x.den) + y.num * (den \div y.den), den)
NumScale(x, k) == Num(x.num * k, x.den)

RECURSIVE TrimStart(_)
TrimStart(str) ==
    IF str # <<>> /\ Head(str) = " " THEN TrimStart(Tail(str)) ELSE str
RECURSIVE TrimEnd(_)
TrimEnd(str) ==
    IF str # <<>> /\ str[Len(str)] = " "
    THEN TrimEnd(SubSeq(str, 1, Len(str) - 1)) ELSE str

RECURSIVE DigitsValue(_)
DigitsValue(str) ==
    IF str = <<>> THEN 0
    ELSE 10 * DigitsValue(SubSeq(str, 1, Len(str) - 1)) + DigitVal(str[Len(str)])

AllDigits(str) == \A i \in 1..Len(str) : IsDigit(str[i])

\* StrUnsignedDecimalLiteral: digits, digits '.', digits '.' digits, '.' digits
UnsignedDecimal(str) ==
    LET dots == { i \in 1..Len(str) : str[i] = "." }
    IN  IF dots = {}
        THEN IF str # <<>> /\ AllDigits(str) THEN Num(DigitsValue(str), 1) ELSE NaN
        ELSE LET d == CHOOSE i \in dots : \A j \in dots : i <= j
                 whole == SubSeq(str, 1, d - 1)
                 frac == SubSeq(str, d + 1, Len(str))
             IN  IF AllDigits(whole) /\ AllDigits(frac) /\ Len(whole) + Len(frac) > 0
                 THEN Num(DigitsValue(whole) * Pow10(Len(frac)) + DigitsValue(frac),
                          Pow10(Len(frac)))
                 ELSE NaN

\* Number(str) of JavaScript, for strings of digits, '-', '+', '.', ' ' and
\* letters that start no numeric literal: white space is trimmed, the empty
\* string is 0, a sign may come first, anything else is NaN.
Number(str) ==
    LET t == TrimEnd(TrimStart(str))
    IN  IF t = <<>> THEN Num(0, 1)
        ELSE IF Head(t) = "-"
             THEN LET u == UnsignedDecimal(Tail(t))
                  IN  IF u.nan THEN NaN ELSE NumNeg(u)
        ELSE IF Head(t) = "+" THEN UnsignedDecimal(Tail(t))
        ELSE UnsignedDecimal(t)

Threw(message) == [ok |-> FALSE, error |-> message, num |-> 0, den |-> 1]
Returned(x) == [ok |-> TRUE, error |-> "", num |-> x.num, den |-> x.den]

\* Variant of the parser: the first part keeps its sign
getDurationSByDurationStringNoFlip(str) ==
    LET raw == split(str)
        parts == [i \in 1..Len(raw) |-> Number(raw[i])]
        isNegative == str # <<>> /\ Head(str) = "-"
        sign(x) == IF isNegative THEN NumNeg(x) ELSE x
    IN  IF \E i \in 1..Len(parts) : parts[i].nan
        THEN Threw("Invalid duration string")
        ELSE IF Len(parts) = 3
        THEN Returned(sign(NumAdd(NumAdd(NumScale(parts[1], 3600),
                                         NumScale(parts[2], 60)), parts[3])))
        ELSE IF Len(parts) = 2
        THEN Returned(sign(NumAdd(NumScale(parts[1], 60), parts[2])))
        ELSE IF Len(parts) = 1
        THEN Returned(sign(parts[1]))
        ELSE Threw("Invalid duration string format")

getDurationSByDurationString(str) ==
    LET raw == split(str)
        parts0 == [i \in 1..Len(raw) |-> Number(raw[i])]
        isNegative == str # <<>> /\ Head(str) = "-"
        parts == IF isNegative /\ ~parts0[1].nan
                 THEN [parts0 EXCEPT ![1] = NumNeg(parts0[1])] ELSE parts0
        sign(x) == IF isNegative THEN NumNeg(x) ELSE x
    IN  IF \E i \in 1..Len(parts0) : parts0[i].nan
        THEN Threw("Invalid duration string")
        ELSE IF Len(parts) = 3
        THEN Returned(sign(NumAdd(NumAdd(NumScale(parts[1], 3600),
                                         NumScale(parts[2], 60)), parts[3])))
        ELSE IF Len(parts) = 2
        THEN Returned(sign(NumAdd(NumScale(parts[1], 60), parts[2])))
        ELSE IF Len(parts) = 1
        THEN Returned(sign(parts[1]))
        ELSE Threw("Invalid duration string format")

--------------------------------------------------------------------------
(* The store *)

Status(type, name, backgroundColor, textColor) ==
    [type |-> type, name |-> name,
     backgroundColor |-> backgroundColor, textColor |-> textColor]

Record(statusName, startedAt, finishedAt, dS) ==
    [statusName |-> statusName, startedAt |-> startedAt,
     finishedAt |-> finishedAt, durationS |-> dS]

\* getInitialState().statuses
InitialStatuses ==
    << Status("something", "brain", "#ffeefa", "#a58989"),
       Status("something", "cool",  "#000000", "#ffffff"),
       Status("something", "smile", "#ffffff", "#000000"),
       Status("nothing",   "cross", "#e6e6e6", "#434343") >>

\* getInitialState(), evaluated when the clock reads t
getInitialState(t) ==
    [statuses |-> InitialStatuses,
     records  |-> << Record("cross", t, None, None) >>]

\* The default status list of the earlier revision: a persisted snapshot
\* written by it is what the persist middleware rehydrates.
EarlierStatuses ==
    << Status("nothing",   "cross", "#bcbcbc", "#434343"),
       Status("something", "cool",  "#000000", "#ffffff"),
       Status("something", "sleep", "#ffffff", "#000000") >>

FindStatus(sts, name) == { i \in 1..Len(sts) : sts[i].name = name }
StatusNames(sts) == { sts[i].name : i \in 1..Len(sts) }

\* getRecordDurationS, with the clock reading t
getRecordDurationS(record, t) ==
    IF IsSome(record.durationS) /\ Val(record.durationS) # 0
    THEN Val(record.durationS)
    ELSE LET finishedAt == IF IsSome(record.finishedAt)
                           THEN Val(record.finishedAt) ELSE t
         IN  differenceInSeconds(finishedAt, record.startedAt)

\* Variant of isBadRecord: the retention window is not applied
isBadRecordNoAge(record, t) ==
    IF ~IsSome(record.finishedAt) THEN FALSE
    ELSE Abs(getRecordDurationS(record, t)) < tooShortDurationS

\* removeBadRecords: isBadRecord, with the clock reading t
isBadRecord(record, t) ==
    LET tooOldDate == subDays(t, tooOldDays)
    IN  IF ~IsSome(record.finishedAt) THEN FALSE
        ELSE IF Abs(getRecordDurationS(record, t)) < tooShortDurationS THEN TRUE
        ELSE isBefore(Val(record.finishedAt), tooOldDate)

\* removeBadRecords: get().records.filter((record) => !isBadRecord(record))
RECURSIVE goodRecords(_, _)
goodRecords(recs, t) ==
    IF recs = <<>> THEN <<>>
    ELSE IF isBadRecord(Head(recs), t) THEN goodRecords(Tail(recs), t)
         ELSE <<Head(recs)>> \o goodRecords(Tail(recs), t)

\* Array.prototype.findIndex over statuses by name: 0-based, -1 when absent
findIndex(sts, name) ==
    IF FindStatus(sts, name) = {} THEN -1
    ELSE (CHOOSE i \in FindStatus(sts, name) :
              \A j \in FindStatus(sts, name) : i <= j) - 1

\* stats.find((stat) => stat.statusName === name): 1-based position, 0 when absent
findStat(stats, name) ==
    LET hits == { i \in 1..Len(stats) : stats[i].statusName = name }
    IN  IF hits = {} THEN 0 ELSE CHOOSE i \in hits : \A j \in hits : i <= j

TodayStat(statusName, dS, dString) ==
    [statusName |-> statusName, durationS |-> dS, durationString |-> dString]

\* Variant of isToday: only startedAt is tested
isTodayStartOnly(record, today) == isSameDay(record.startedAt, today)

\* getTodayStats: the day test of one record
isToday(record, today) ==
    \/ isSameDay(record.startedAt, today)
    \/ IsSome(record.finishedAt) /\ isSameDay(Val(record.finishedAt), today)

\* Variant of seedStats: no entry is seeded (`const stats = []`, as in the
\* earlier revision src/src/App.tsx)
seedStatsEmpty(sts) == <<>>

\* getTodayStats: the seeded entries, one per status
seedStats(sts) == [i \in 1..Len(sts) |-> TodayStat(sts[i].name, 0, <<>>)]

\* getTodayStats: one iteration of `for (const record of records)`
addRecord(stats, sts, record, t) ==
    IF ~isToday(record, t) THEN stats
    ELSE LET i == findStat(stats, record.statusName)
         IN  IF i = 0
             THEN IF FindStatus(sts, record.statusName) # {}
                  THEN Append(stats, TodayStat(record.statusName,
                                               getRecordDurationS(record, t), <<>>))
                  ELSE stats
             ELSE [stats EXCEPT ![i].durationS = @ + getRecordDurationS(record, t)]

\* getTodayStats: the loop over records, first to last
RECURSIVE addRecords(_, _, _, _)
addRecords(stats, sts, recs, t) ==
    IF recs = <<>> THEN stats
    ELSE addRecords(addRecord(stats, sts, Head(recs), t), sts, Tail(recs), t)

\* Array.prototype.sort by aIndex - bIndex (stable): insert x behind every
\* entry whose index is not larger
RECURSIVE insertStat(_, _, _)
insertStat(sorted, x, sts) ==
    IF sorted = <<>> THEN <<x>>
    ELSE IF findIndex(sts, Head(sorted).statusName) <= findIndex(sts, x.statusName)
         THEN <<Head(sorted)>> \o insertStat(Tail(sorted), x, sts)
         ELSE <<x>> \o sorted

RECURSIVE sortStats(_, _)
sortStats(stats, sts) ==
    IF stats = <<>> THEN <<>>
    ELSE insertStat(sortStats(SubSeq(stats, 1, Len(stats) - 1), sts),
                    stats[Len(stats)], sts)

getTodayStats(sts, recs, t) ==
    LET sorted == sortStats(addRecords(seedStats(sts), sts, recs, t), sts)
    IN  [i \in 1..Len(sorted) |->
            [sorted[i] EXCEPT !.durationString =
                getRecordDurationStringByDurationS(sorted[i].durationS)]]

--------------------------------------------------------------------------
(* Store operations.  Each is the whole handler: what it reads from the     *)
(* clock, what it sets, the error it throws and the value it returns.       *)

Call(op, statusName, newDurationS, err, pruned) ==
    [op |-> op, statusName |-> statusName, newDurationS |-> newDurationS,
     err |-> err, pruned |-> pruned, returned |-> <<>>]

NoCall == Call("none", "", 0, "none", 0)

\* The clock moves between two `new Date()` reads of one handler by 0 or 1 tick
HandlerDrift == {0, 1}

\* Variant of nextRecords: the closed record's durationS is not frozen
nextRecordsNoFreeze(recs, statusName, t1, t2) ==
    <<Record(statusName, t2, None, None),
      [Head(recs) EXCEPT !.finishedAt = Some(t1)]>> \o Tail(recs)

\* Variant of nextRecords: the current record is not closed
nextRecordsNoClose(recs, statusName, t1, t2) ==
    <<Record(statusName, t2, None, None),
      [Head(recs) EXCEPT !.durationS = Some(getRecordDurationS(Head(recs), t2))]>>
    \o Tail(recs)

\* Variant of nextRecords: the closed record goes to the end of the list
nextRecordsCloseLast(recs, statusName, t1, t2) ==
    <<Record(statusName, t2, None, None)>> \o Tail(recs)
    \o <<[Head(recs) EXCEPT
            !.finishedAt = Some(t1),
            !.durationS = Some(getRecordDurationS(Head(recs), t2))]>>

\* start: the record list built before removeBadRecords runs.
\* t1 is the clock read for finishedAt, t2 the later reads.
nextRecords(recs, statusName, t1, t2) ==
    LET currentRecord == Head(recs)
        restRecords == Tail(recs)
        updatedCurrentRecord ==
            [currentRecord EXCEPT
                !.finishedAt = Some(t1),
                !.durationS = Some(getRecordDurationS(currentRecord, t2))]
        nextRecord == Record(statusName, t2, None, None)
    IN  <<nextRecord, updatedCurrentRecord>> \o restRecords

\* Variant of start: the status name is not looked up
startUnchecked(statusName) ==
    LET built == <<Record(statusName, now, None, None),
                   [Head(records) EXCEPT
                       !.finishedAt = Some(now),
                       !.durationS = Some(getRecordDurationS(Head(records), now))]>>
                 \o Tail(records)
        kept == goodRecords(built, now)
    IN  /\ records # <<>>
        /\ records' = kept
        /\ call' = Call("start", statusName, 0, "none", Len(built) - Len(kept))
        /\ UNCHANGED <<now, statuses>>

\* Variant of start: removeBadRecords is not called
startNoPrune(statusName) ==
    IF FindStatus(statuses, statusName) = {}
    THEN /\ call' = Call("start", statusName, 0, "NotFound", 0)
         /\ UNCHANGED <<now, statuses, records>>
    ELSE /\ records # <<>>
         /\ records' = nextRecords(records, statusName, now, now)
         /\ call' = Call("start", statusName, 0, "none", 0)
         /\ UNCHANGED <<now, statuses>>

start(statusName) ==
    IF FindStatus(statuses, statusName) = {}
    THEN /\ call' = Call("start", statusName, 0, "NotFound", 0)
         /\ UNCHANGED <<now, statuses, records>>
    ELSE IF records = <<>>
    THEN /\ call' = Call("start", statusName, 0, "InvariantViolation", 0)
         /\ UNCHANGED <<now, statuses, records>>
    ELSE \E drift \in HandlerDrift :
         LET t1 == now
             t2 == now + drift
             built == nextRecords(records, statusName, t1, t2)
             kept == goodRecords(built, t2)
         IN  /\ records' = kept
             /\ now' = t2
             /\ call' = Call("start", statusName, 0, "none",
                             Len(built) - Len(kept))
             /\ UNCHANGED statuses

removeBadRecords ==
    LET kept == goodRecords(records, now)
    IN  /\ records' = kept
        /\ call' = Call("removeBadRecords", "", 0, "none",
                        Len(records) - Len(kept))
        /\ UNCHANGED <<now, statuses>>

\* Variant of updatedRecords: the duration entered is also stored on the
\* current record
updatedRecordsStoresDuration(recs, newDurationS, t) ==
    <<[Head(recs) EXCEPT
          !.startedAt = subSeconds(Head(recs).startedAt,
                                   newDurationS - getRecordDurationS(Head(recs), t)),
          !.durationS = Some(newDurationS)]>>
    \o Tail(recs)

\* updateCurrentRecordStartedAtByDurationS: the record list it sets, with
\* the clock reading t
updatedRecords(recs, newDurationS, t) ==
    LET currentRecord == Head(recs)
        currentDurationsS == getRecordDurationS(currentRecord, t)
        diffS == newDurationS - currentDurationsS
        updatedCurrentRecord ==
            [currentRecord EXCEPT
                !.startedAt = subSeconds(currentRecord.startedAt, diffS)]
    IN  <<updatedCurrentRecord>> \o Tail(recs)

updateCurrentRecordStartedAtByDurationS(newDurationS) ==
    IF records = <<>>
    THEN /\ call' = Call("updateCurrentRecordStartedAtByDurationS", "",
                         newDurationS, "InvariantViolation", 0)
         /\ UNCHANGED <<now, statuses, records>>
    ELSE /\ records' = updatedRecords(records, newDurationS, now)
         /\ call' = Call("updateCurrentRecordStartedAtByDurationS", "",
                         newDurationS, "none", 0)
         /\ UNCHANGED <<now, statuses>>

\* getCurrentStatus: what it returns for a status list and a record list.
\* find returns undefined (value None) when nothing matches; its callback,
\* which reads the current record, runs once per status.
getCurrentStatus(sts, recs) ==
    LET nothing == { i \in 1..Len(sts) : sts[i].type = "nothing" }
        First(S) == CHOOSE i \in S : \A k \in S : i <= k
    IN  IF sts = <<>>
        THEN [err |-> "none", value |-> None]
        ELSE IF recs = <<>>
        THEN [err |-> "InvariantViolation", value |-> None]
        ELSE LET found == FindStatus(sts, Head(recs).statusName)
             IN  IF found # {}
                 THEN [err |-> "none", value |-> Some(sts[First(found)])]
                 ELSE IF nothing # {}
                 THEN [err |-> "none", value |-> Some(sts[First(nothing)])]
                 ELSE [err |-> "none", value |-> Some(sts[1])]

\* A caller (the page) reads the current status: store unchanged
currentStatus ==
    LET result == getCurrentStatus(statuses, records)
    IN  /\ call' = [Call("getCurrentStatus", "", 0, result.err, 0)
                       EXCEPT !.returned = result.value]
        /\ UNCHANGED <<now, statuses, records>>

\* A caller (the polling view) reads today's totals: store unchanged
todayStats ==
    /\ call' = [Call("getTodayStats", "", 0, "none", 0)
                   EXCEPT !.returned = getTodayStats(statuses, records, now)]
    /\ UNCHANGED <<now, statuses, records>>

\* Variant of resetStatuses: the list set is the default list of the
\* earlier revision
resetStatusesEarlier ==
    /\ statuses' = EarlierStatuses
    /\ call' = Call("resetStatuses", "", 0, "none", 0)
    /\ UNCHANGED <<now, records>>

\* Variant of resetStatuses: the whole initial state is set
resetStatusesAndRecords ==
    /\ statuses' = getInitialState(now).statuses
    /\ records' = getInitialState(now).records
    /\ call' = Call("resetStatuses", "", 0, "none", 0)
    /\ UNCHANGED now

resetStatuses ==
    /\ statuses' = getInitialState(now).statuses
    /\ call' = Call("resetStatuses", "", 0, "none", 0)
    /\ UNCHANGED <<now, records>>

\* Variant of resetStore: the current record keeps the time it started
resetStoreKeepsStartedAt ==
    /\ statuses' = getInitialState(now).statuses
    /\ records' = getInitialState(Head(records).startedAt).records
    /\ call' = Call("resetStore", "", 0, "none", 0)
    /\ UNCHANGED now

resetStore ==
    /\ statuses' = getInitialState(now).statuses
    /\ records' = getInitialState(now).records
    /\ call' = Call("resetStore", "", 0, "none", 0)
    /\ UNCHANGED now

--------------------------------------------------------------------------
(* The environment *)

\* Status names a caller may pass to start: two of the current defaults and
\* one name that is not in the default list
StartNames == {"cool", "cross", "sleep"}

\* Durations a caller may pass to updateCurrentRecordStartedAtByDurationS
NewDurations == {-5, 0, 65}

\* How far the clock moves between two handlers, in ticks: less than a
\* second, just over the too-short threshold, more than the retention window
ClockSteps == {1, tooShortDurationS * TicksPerS + 1, (tooOldDays + 1) * TicksPerDay}

\* The clock when the module is loaded: four minutes after local midnight
LoadTime == 100 * TicksPerDay + 240 * TicksPerS

advanceClock(d) ==
    /\ now' = now + d
    /\ call' = NoCall
    /\ UNCHANGED <<statuses, records>>

\* Snapshots the earlier revision persisted, which the persist middleware
\* rehydrates: its status list; an open record started 20 seconds before the
\* load; behind it a "cool" and a "sleep" interval of 125 seconds each, the
\* newer one closed `back` ticks before the open record started
PersistedSnapshot(statusName, back) ==
    LET startedAt == LoadTime - 20 * TicksPerS
        closedAt == startedAt - back
    IN  [statuses |-> EarlierStatuses,
         records  |-> << Record(statusName, startedAt, None, None),
                         Record("cool", closedAt - 125 * TicksPerS,
                                Some(closedAt), Some(125)),
                         Record("sleep", closedAt - 250 * TicksPerS,
                                Some(closedAt - 125 * TicksPerS), Some(125)) >>]

PersistedSnapshots ==
    { PersistedSnapshot("cool", 0), PersistedSnapshot("cross", 40 * TicksPerDay) }

NotParsed == Threw("not parsed")

\* No handler is running and none is suspended
LoopIdle == [running |-> "none", pending |-> "none"]

\* ManyClickDiv: the interval of its effect resets the count every 5000 ms
resetAfterS == 5

\* ManyClickDiv when it is mounted with the threshold desiredCount: count is
\* 0 and the effect has set its interval.  clickedAt, handledAt and the
\* four run lengths record the clicks: when the last one arrived, when its
\* handler returned, and how many clicks in a row, since the last firing,
\* came less than (Strict) or at most (Loose) 5 seconds after the arrival
\* (arrived) or the return of the handler (handled) of the one before
ManyClickMounted(desiredCount, t) ==
    [desiredCount |-> desiredCount, count |-> 0,
     due |-> t + resetAfterS * TicksPerS, fired |-> FALSE,
     clickedAt |-> t, handledAt |-> t,
     arrivedStrict |-> 0, arrivedLoose |-> 0,
     handledStrict |-> 0, handledLoose |-> 0]

\* App before it is mounted: no interval is set
AppUnmounted == [mounted |-> FALSE, active |-> {}, interval |-> None, nextId |-> 1]

ViewIdle ==
    /\ manyClick = ManyClickMounted(3, LoadTime)
    /\ app = AppUnmounted

CodecIdle ==
    /\ codecPc = "off"
    /\ durationS = 0
    /\ durationString = <<>>
    /\ parsed = NotParsed
    /\ parsedPlain = NotParsed

Init ==
    /\ now = LoadTime
    /\ steps = 0
    /\ \E snapshot \in {getInitialState(LoadTime)} \cup PersistedSnapshots :
          /\ statuses = snapshot.statuses
          /\ records = snapshot.records
    /\ call = NoCall
    /\ loop = LoopIdle
    /\ ViewIdle
    /\ CodecIdle

Step ==
    /\ steps < MaxSteps
    /\ steps' = steps + 1
    /\ UNCHANGED loop
    /\ UNCHANGED viewVars
    /\ UNCHANGED codecVars

Next ==
    \/ \E d \in ClockSteps : advanceClock(d) /\ Step
    \/ \E statusName \in StartNames : start(statusName) /\ Step
    \/ \E newDurationS \in NewDurations :
          updateCurrentRecordStartedAtByDurationS(newDurationS) /\ Step
    \/ removeBadRecords /\ Step
    \/ resetStatuses /\ Step
    \/ resetStore /\ Step
    \/ todayStats /\ Step

Spec == Init /\ [][Next]_vars

--------------------------------------------------------------------------
(* The codec on its own: the inputs are drawn by InitCodec, the steps apply  *)
(* the formatter and the parser as the duration prompt of App does (the      *)
(* prompt shows the formatted duration, the text entered is parsed).         *)

\* Characters of a text entered at the prompt: digits, the separator, a
\* sign, a decimal point, a letter and a blank
TextAlphabet == {"0", "5", ":", "-", ".", "a", " "}

\* The prompt handler returns before parsing when the text is empty
Texts == UNION { [1..n -> TextAlphabet] : n \in 1..MaxTextLen }

InitCodec ==
    /\ now = LoadTime
    /\ steps = 0
    /\ statuses = getInitialState(LoadTime).statuses
    /\ records = getInitialState(LoadTime).records
    /\ call = NoCall
    /\ loop = LoopIdle
    /\ ViewIdle
    /\ parsed = NotParsed
    /\ parsedPlain = NotParsed
    /\ \/ /\ codecPc = "seconds"
          /\ durationS \in 0..MaxDurationS
          /\ durationString = <<>>
       \/ /\ codecPc = "text"
          /\ durationS = 0
          /\ durationString \in Texts

\* getRecordDurationStringByDurationS(durationS)
formatDuration ==
    /\ codecPc = "seconds"
    /\ durationString' = getRecordDurationStringByDurationS(durationS)
    /\ codecPc' = "formatted"
    /\ UNCHANGED <<durationS, parsed, parsedPlain>>

\* getDurationSByDurationString(durationString)
parseDuration ==
    /\ codecPc \in {"formatted", "text"}
    /\ parsed' = getDurationSByDurationString(durationString)
    /\ codecPc' = IF codecPc = "formatted" THEN "roundTrip" ELSE "parsedText"
    /\ UNCHANGED <<durationS, durationString, parsedPlain>>

\* getDurationSByDurationString("-" + durationString)
parseNegated ==
    /\ codecPc = "parsedText"
    /\ durationString' = <<"-">> \o durationString
    /\ parsed' = getDurationSByDurationString(<<"-">> \o durationString)
    /\ parsedPlain' = parsed
    /\ codecPc' = "parsedNegated"
    /\ UNCHANGED durationS

StoreIdle == UNCHANGED <<now, steps, statuses, records, call, loop, viewVars>>

NextCodec ==
    \/ formatDuration /\ StoreIdle
    \/ parseDuration /\ StoreIdle
    \/ parseNegated /\ StoreIdle

SpecCodec == InitCodec /\ [][NextCodec]_vars

--------------------------------------------------------------------------
(* The page: what the user can do with it.  A click on a status of today's  *)
(* stats starts that status, a click on the duration opens the prompt.      *)

\* What the prompt can return.  <<>> stands for a cancelled prompt (null)
\* and for an empty text, which the handler tells apart from nothing else
\* (!newDurationString); the other texts are rejected by the parser (a
\* letter, a part that is not a number, four parts) or parse to whole
\* seconds (-5, 305)
PromptTexts ==
    { <<>>,
      <<"a">>, <<"5", ":", "a">>, <<"0", ":", "0", ":", "0", ":", "0">>,
      <<"-", "5">>, <<"5", ":", "0", "5">> }

\* The click handler with a parser whose failure is read as zero seconds
durationClickLenient(newDurationString) ==
    LET result == getDurationSByDurationString(newDurationString)
        newDurationS == IF result.ok THEN result.num ELSE 0
    IN  /\ durationString' = newDurationString
        /\ parsed' = result
        /\ records' = updatedRecords(records, newDurationS, now)
        /\ call' = Call("durationClick", "", newDurationS, "none", 0)
        /\ UNCHANGED <<now, statuses, durationS, parsedPlain, codecPc>>

\* onClick of the duration: prompt, return when nothing was entered, parse
\* (an error thrown by the parser leaves the handler), edit the current
\* record.  call.err = "none" says that
\* updateCurrentRecordStartedAtByDurationS was called, with call.newDurationS
durationClick(newDurationString) ==
    IF newDurationString = <<>>
    THEN /\ call' = Call("durationClick", "", 0, "cancelled", 0)
         /\ UNCHANGED <<now, statuses, records>>
         /\ UNCHANGED codecVars
    ELSE LET result == getDurationSByDurationString(newDurationString)
         IN  /\ durationString' = newDurationString
             /\ parsed' = result
             /\ UNCHANGED <<now, statuses, durationS, parsedPlain, codecPc>>
             /\ IF ~result.ok
                THEN /\ call' = Call("durationClick", "", 0, "ParseError", 0)
                     /\ UNCHANGED records
                ELSE /\ records' = updatedRecords(records, result.num, now)
                     /\ call' = Call("durationClick", "", result.num, "none", 0)

\* onClick of a stat: start(stat.statusName)
statClick(statusName) ==
    /\ statusName \in StatusNames(statuses)
    /\ start(statusName)
    /\ UNCHANGED codecVars

StepApp ==
    /\ steps < MaxSteps
    /\ steps' = steps + 1
    /\ UNCHANGED loop
    /\ UNCHANGED viewVars

NextApp ==
    \/ \E d \in ClockSteps : advanceClock(d) /\ UNCHANGED codecVars /\ StepApp
    \/ \E statusName \in StartNames : statClick(statusName) /\ StepApp
    \/ \E text \in PromptTexts : durationClick(text) /\ StepApp

SpecApp == Init /\ [][NextApp]_vars

--------------------------------------------------------------------------
(* getCurrentStatus on its own: the status list and the current record are  *)
(* drawn by InitStatus, the step calls the function.                         *)

\* The elements of seq at the positions S, in the order of seq
PickSeq(seq, S) ==
    [k \in 1..Cardinality(S) |->
        seq[CHOOSE i \in S : Cardinality({j \in S : j <= i}) = k]]

\* Status lists: the default list and the list of the earlier revision with
\* any of their elements removed, down to the empty list
StatusLists ==
    { PickSeq(InitialStatuses, S) : S \in SUBSET (1..Len(InitialStatuses)) }
    \cup { PickSeq(EarlierStatuses, S) : S \in SUBSET (1..Len(EarlierStatuses)) }

InitStatus ==
    /\ now = LoadTime
    /\ steps = 0
    /\ statuses \in StatusLists
    /\ \E statusName \in StatusNames(InitialStatuses) \cup StatusNames(EarlierStatuses) :
          records = << Record(statusName, LoadTime, None, None) >>
    /\ call = NoCall
    /\ loop = LoopIdle
    /\ ViewIdle
    /\ CodecIdle

NextStatus ==
    /\ currentStatus
    /\ steps' = 1
    /\ UNCHANGED loop
    /\ UNCHANGED viewVars
    /\ UNCHANGED codecVars

SpecStatus == InitStatus /\ [][NextStatus]_vars

--------------------------------------------------------------------------
(* The event loop: start taken statement by statement.  A task (a click     *)
(* handler, the callback of the polling interval) is taken from the queue   *)
(* only when no handler is running, and a handler gives the loop back only  *)
(* by returning or at an await.                                              *)

\* Variant of startSet: start waits (await) between set and removeBadRecords
startSetAwaits(statusName) ==
    /\ loop.running = "none"
    /\ statusName \in StatusNames(statuses)
    /\ \E drift \in HandlerDrift :
          /\ records' = nextRecords(records, statusName, now, now + drift)
          /\ now' = now + drift
    /\ call' = Call("set", statusName, 0, "none", 0)
    /\ loop' = [running |-> "none", pending |-> "removeBadRecords"]
    /\ UNCHANGED statuses

\* start, from the click to set({ records: nextRecords }): the handler is
\* still running, removeBadRecords() is its next statement
startSet(statusName) ==
    /\ loop.running = "none"
    /\ statusName \in StatusNames(statuses)
    /\ \E drift \in HandlerDrift :
          /\ records' = nextRecords(records, statusName, now, now + drift)
          /\ now' = now + drift
    /\ call' = Call("set", statusName, 0, "none", 0)
    /\ loop' = [running |-> "start", pending |-> "removeBadRecords"]
    /\ UNCHANGED statuses

\* start, its last statement: removeBadRecords(), then the handler returns
startPrune ==
    /\ loop.pending = "removeBadRecords"
    /\ LET kept == goodRecords(records, now)
       IN  /\ records' = kept
           /\ call' = Call("start", call.statusName, 0, "none",
                           Len(records) - Len(kept))
    /\ loop' = LoopIdle
    /\ UNCHANGED <<now, statuses>>

\* The callback of the polling interval: updateCurrentDurationString() and
\* updateTodayStats() read the current record, its elapsed seconds and
\* today's totals
tick ==
    /\ loop.running = "none"
    /\ call' = [Call("tick", "", 0, "none", 0)
                   EXCEPT !.returned =
                       [durationS |-> getRecordDurationS(Head(records), now),
                        todayStats |-> getTodayStats(statuses, records, now)]]
    /\ UNCHANGED <<now, statuses, records, loop>>

\* Another store operation, called from a click handler
editTask(newDurationS) ==
    /\ loop.running = "none"
    /\ updateCurrentRecordStartedAtByDurationS(newDurationS)
    /\ UNCHANGED loop

\* Time passes while the loop is idle (the time that passes inside a handler
\* is its drift)
wait(d) ==
    /\ loop = LoopIdle
    /\ advanceClock(d)
    /\ UNCHANGED loop

StepLoop ==
    /\ steps < MaxSteps + 1
    /\ steps' = steps + 1
    /\ UNCHANGED viewVars
    /\ UNCHANGED codecVars

NextLoop ==
    \/ \E d \in ClockSteps : wait(d) /\ StepLoop
    \/ \E statusName \in StartNames : startSet(statusName) /\ StepLoop
    \/ startPrune /\ StepLoop
    \/ tick /\ StepLoop
    \/ \E newDurationS \in NewDurations : editTask(newDurationS) /\ StepLoop

SpecLoop == Init /\ [][NextLoop]_vars

--------------------------------------------------------------------------
(* ManyClickDiv on its own: clicks, the interval of its effect, and time    *)
(* passing between them.  The effect depends on count: when a render        *)
(* changes count, the cleanup clears the interval and the effect sets a new *)
(* one; React runs both with the render that a click causes, before the     *)
(* next task.                                                                *)

MaxClickSteps == 7

\* desiredCount: 3 is the default and the threshold of the status name
Thresholds == {1, 2, 3}

\* Seconds that onClick takes: none (no onClick, or one that returns at
\* once), or the time the prompt of the duration stays open, during which
\* no task runs
HandlerSeconds == {0, 6}

\* Time between two tasks
ClickWaits == {TicksPerS, 4 * TicksPerS}

\* A run length after one more click that came gap ticks after the
\* reference time of the click before: the run goes on when the gap is
\* under the window (or equal to it, when not strict), and starts again
\* after a firing
RunAfterClick(run, gap, strict, fired) ==
    LET window == resetAfterS * TicksPerS
    IN  IF fired THEN 1
        ELSE IF gap < window \/ (~strict /\ gap = window) THEN run + 1
        ELSE 1

\* manyClick after a click that arrived at `arrived`, whose handler returned
\* at `done` and left nextCount and fired
Clicked(m, arrived, done, nextCount, fired) ==
    [m EXCEPT
        !.count = nextCount,
        !.due = IF nextCount # m.count
                THEN done + resetAfterS * TicksPerS ELSE m.due,
        !.fired = fired,
        !.clickedAt = arrived,
        !.handledAt = done,
        !.arrivedStrict = RunAfterClick(m.arrivedStrict, arrived - m.clickedAt, TRUE, m.fired),
        !.arrivedLoose = RunAfterClick(m.arrivedLoose, arrived - m.clickedAt, FALSE, m.fired),
        !.handledStrict = RunAfterClick(m.handledStrict, arrived - m.handledAt, TRUE, m.fired),
        !.handledLoose = RunAfterClick(m.handledLoose, arrived - m.handledAt, FALSE, m.fired)]

\* Variant of handleClick: the count is not set back to 0 on a firing
handleClickKeepsCount(handlerS) ==
    LET done == now + handlerS * TicksPerS
        nextCount == manyClick.count + 1
    IN  /\ manyClick' = Clicked(manyClick, now, done, nextCount,
                                nextCount >= manyClick.desiredCount)
        /\ now' = done
        /\ call' = Call("handleClick", "", 0, "none", 0)

\* handleClick: onClick?.(), which takes handlerS seconds, then the count,
\* then onMultyClick() when the count has reached desiredCount
handleClick(handlerS) ==
    LET done == now + handlerS * TicksPerS
        nextCount == manyClick.count + 1
        fired == nextCount >= manyClick.desiredCount
    IN  /\ manyClick' = Clicked(manyClick, now, done,
                                IF fired THEN 0 ELSE nextCount, fired)
        /\ now' = done
        /\ call' = Call("handleClick", "", 0, "none", 0)

\* The callback of the interval: setCount(0).  The interval fires again 5
\* seconds later, as the same interval when count was 0 already and as the
\* new one of the effect when it was not
intervalFires ==
    /\ now >= manyClick.due
    /\ manyClick' = [manyClick EXCEPT !.count = 0,
                                      !.due = now + resetAfterS * TicksPerS]
    /\ call' = Call("setCount", "", 0, "none", 0)
    /\ UNCHANGED now

\* Time passes; a timer that is due fires before more time passes
passTime(d) ==
    /\ now + d <= manyClick.due
    /\ now' = now + d
    /\ call' = NoCall
    /\ UNCHANGED manyClick

StepClick ==
    /\ steps < MaxClickSteps
    /\ steps' = steps + 1
    /\ UNCHANGED <<statuses, records, loop, app>>
    /\ UNCHANGED codecVars

InitClick ==
    /\ now = LoadTime
    /\ steps = 0
    /\ statuses = getInitialState(LoadTime).statuses
    /\ records = getInitialState(LoadTime).records
    /\ call = NoCall
    /\ loop = LoopIdle
    /\ \E desiredCount \in Thresholds :
          manyClick = ManyClickMounted(desiredCount, LoadTime)
    /\ app = AppUnmounted
    /\ CodecIdle

NextClick ==
    \/ \E handlerS \in HandlerSeconds : handleClick(handlerS) /\ StepClick
    \/ intervalFires /\ StepClick
    \/ \E d \in ClickWaits : passTime(d) /\ StepClick

SpecClick == InitClick /\ [][NextClick]_vars

--------------------------------------------------------------------------
(* App's polling effect.  It depends on currentRecordStartedAt, a Date: the *)
(* effect runs when App is mounted and again after every render in which    *)
(* that Date is another object, which is after a start, an edit and a       *)
(* resetStore; before it runs again, and when App is unmounted, React calls *)
(* the cleanup the last run returned.                                        *)

\* The polling interval: setInterval(..., 1000)
pollEveryS == 1

\* Variant of pollingEffect: the effect returns no cleanup
pollingEffectNoCleanup(a) ==
    [a EXCEPT !.active = a.active \cup {a.nextId},
              !.interval = Some(a.nextId),
              !.nextId = a.nextId + 1]

\* The cleanup of the last run, () => clearInterval(interval), when there
\* is one, then the effect: const interval = setInterval(...)
pollingEffect(a) ==
    LET cleared == IF IsSome(a.interval) THEN {Val(a.interval)} ELSE {}
    IN  [a EXCEPT !.active = (a.active \ cleared) \cup {a.nextId},
                  !.interval = Some(a.nextId),
                  !.nextId = a.nextId + 1]

\* App is mounted: its effects run, resetStatuses() and the polling effect
mountApp ==
    /\ ~app.mounted
    /\ resetStatuses
    /\ app' = [pollingEffect(app) EXCEPT !.mounted = TRUE]

\* App is unmounted: the cleanup of the polling effect runs
unmountApp ==
    /\ app.mounted
    /\ app' = [app EXCEPT
                  !.mounted = FALSE,
                  !.active = app.active \ (IF IsSome(app.interval)
                                           THEN {Val(app.interval)} ELSE {}),
                  !.interval = None]
    /\ call' = NoCall
    /\ UNCHANGED <<now, statuses, records>>

\* After a store call that has put a new Date in records[0].startedAt, a
\* mounted App renders and the polling effect runs again
rendered == IF app.mounted THEN pollingEffect(app) ELSE app

startAndRender(statusName) ==
    /\ statusName \in StatusNames(statuses)
    /\ start(statusName)
    /\ app' = rendered

editAndRender(newDurationS) ==
    /\ updateCurrentRecordStartedAtByDurationS(newDurationS)
    /\ app' = rendered

resetStoreAndRender ==
    /\ resetStore
    /\ app' = rendered

\* A second passes and the callback of every interval that is set runs
pollTick ==
    /\ app.active # {}
    /\ now' = now + pollEveryS * TicksPerS
    /\ call' = [Call("tick", "", 0, "none", 0)
                   EXCEPT !.returned =
                       [durationS |-> getRecordDurationS(Head(records),
                                          now + pollEveryS * TicksPerS),
                        callbacks |-> Cardinality(app.active)]]
    /\ UNCHANGED <<statuses, records, app>>

StepPolling ==
    /\ steps < MaxSteps
    /\ steps' = steps + 1
    /\ UNCHANGED <<loop, manyClick>>
    /\ UNCHANGED codecVars

NextPolling ==
    \/ mountApp /\ StepPolling
    \/ unmountApp /\ StepPolling
    \/ \E statusName \in StartNames : startAndRender(statusName) /\ StepPolling
    \/ \E newDurationS \in NewDurations : editAndRender(newDurationS) /\ StepPolling
    \/ resetStoreAndRender /\ StepPolling
    \/ pollTick /\ StepPolling

SpecPolling == Init /\ [][NextPolling]_vars

--------------------------------------------------------------------------
(* The store when nothing was persisted: it starts from getInitialState()   *)
(* and takes the store calls, the two reads included.                       *)

InitFresh ==
    /\ now = LoadTime
    /\ steps = 0
    /\ statuses = getInitialState(LoadTime).statuses
    /\ records = getInitialState(LoadTime).records
    /\ call = NoCall
    /\ loop = LoopIdle
    /\ ViewIdle
    /\ CodecIdle

NextFresh ==
    \/ Next
    \/ currentStatus /\ Step

SpecFresh == InitFresh /\ [][NextFresh]_vars

--------------------------------------------------------------------------
(* Properties *)

IsOpen(record) == ~IsSome(record.finishedAt)
IsClosed(record) == IsSome(record.finishedAt)
StartReturned(c) == c.op = "start" /\ c.err = "none"
Range(seq) == { seq[i] : i \in 1..Len(seq) }

\* C1 as stated: after a successful start(s), records[0] is a new open record
\* for s, and the record that was records[0] before the call is now
\* records[1], closed, with durationS = its elapsed seconds at close time.
C1_AsStated ==
    [][ StartReturned(call') =>
          /\ records'[1].statusName = call'.statusName
          /\ IsOpen(records'[1])
          /\ Len(records') >= 2
          /\ records'[2].statusName = records[1].statusName
          /\ records'[2].startedAt = records[1].startedAt
          /\ IsClosed(records'[2])
          /\ records'[2].durationS = Some(getRecordDurationS(records[1], now'))
      ]_vars

\* C1 amended: after a successful start(s), records[0] is a new open record
\* for s; when the previous current record's elapsed seconds at close time
\* are at least 3 in absolute value it is now records[1], closed, with
\* durationS = those elapsed seconds; otherwise the pruning that start runs
\* has removed it, and every record behind records[0] is one of the records
\* that were behind the previous current record.
C1_StartClosesAndOpens ==
    [][ StartReturned(call') =>
          LET elapsed == getRecordDurationS(records[1], now')
          IN  /\ records'[1].statusName = call'.statusName
              /\ IsOpen(records'[1])
              /\ IF Abs(elapsed) >= tooShortDurationS
                 THEN /\ Len(records') >= 2
                      /\ records'[2].statusName = records[1].statusName
                      /\ records'[2].startedAt = records[1].startedAt
                      /\ IsClosed(records'[2])
                      /\ now <= Val(records'[2].finishedAt)
                      /\ Val(records'[2].finishedAt) <= now'
                      /\ records'[2].durationS = Some(elapsed)
                 ELSE \A i \in 2..Len(records') :
                          records'[i] \in Range(Tail(records))
      ]_vars

\* C1 witness: start has just closed a record that ran for 3 seconds or more
\* and kept it at position 1, behind the new open record
C1_Witness ==
    /\ StartReturned(call)
    /\ Len(records) >= 2
    /\ records[1].statusName = call.statusName
    /\ IsClosed(records[2])
    /\ Val(records[2].finishedAt) >= now - 1
    /\ IsSome(records[2].durationS)
    /\ Val(records[2].durationS) >= tooShortDurationS

\* C2: the record list is never empty, records[0] is open and no record at
\* another position is open.
C2_OneOpenRecordAtHead ==
    /\ records # <<>>
    /\ IsOpen(records[1])
    /\ \A i \in 2..Len(records) : IsClosed(records[i])

\* C2 witness: a list of several records left by start
C2_Witness ==
    /\ StartReturned(call)
    /\ Len(records) >= 3
    /\ call.pruned = 0

\* C3: start with a name that is not in statuses throws NotFound and leaves
\* records and statuses as they were.
C3_UnknownStatusNoMutation ==
    [][ (call'.op = "start" /\ call'.statusName \notin StatusNames(statuses)) =>
          /\ call'.err = "NotFound"
          /\ records' = records
          /\ statuses' = statuses
      ]_vars

\* C3 witness: start has thrown NotFound in a store that holds a closed
\* record pruning would have removed
C3_Witness ==
    /\ call.op = "start"
    /\ call.err = "NotFound"
    /\ call.statusName \notin StatusNames(statuses)
    /\ \E i \in 2..Len(records) : isBefore(Val(records[i].finishedAt),
                                           subDays(now, tooOldDays))

\* C4: in the state left by a run of removeBadRecords (called directly or by
\* start), no closed record finished more than 30 days ago and none has an
\* absolute elapsed duration under 3 seconds; the open record at position 0
\* is still there, whatever its age or elapsed duration.
C4_PruneLeavesNoBadRecord ==
    [][ (call'.op = "removeBadRecords" \/ StartReturned(call')) =>
          /\ \A i \in 1..Len(records') :
                IsClosed(records'[i]) =>
                   /\ Val(records'[i].finishedAt) >= now' - tooOldDays * TicksPerDay
                   /\ Abs(getRecordDurationS(records'[i], now')) >= tooShortDurationS
          /\ records' # <<>>
          /\ IsOpen(records'[1])
          /\ call'.op = "removeBadRecords" => records'[1] = records[1]
      ]_vars

\* C4 witness: removeBadRecords has removed records and kept an open record
\* whose elapsed duration is negative
C4_Witness ==
    /\ call.op = "removeBadRecords"
    /\ call.pruned > 0
    /\ IsOpen(records[1])
    /\ getRecordDurationS(records[1], now) < 0

\* C5 as stated: for any integer n, immediately after
\* updateCurrentRecordStartedAtByDurationS(n) the elapsed seconds of the
\* current record equal n.
C5_EditSetsElapsed ==
    (call.op = "updateCurrentRecordStartedAtByDurationS" /\ call.err = "none") =>
        getRecordDurationS(records[1], now) = call.newDurationS

\* Entries of a todayStats result for one status name
EntriesFor(stats, name) == { k \in 1..Len(stats) : stats[k].statusName = name }

\* A record counts for today when startedAt or finishedAt is on the day of t
TouchesDay(record, t) ==
    \/ isSameDay(record.startedAt, t)
    \/ IsClosed(record) /\ isSameDay(Val(record.finishedAt), t)

\* C6: todayStats() holds exactly one entry for each status of the current
\* list, with durationS 0 when no record of today has that status name, and
\* the entries of the statuses are in the order of the status list.
C6_OneEntryPerStatusInOrder ==
    call.op = "getTodayStats" =>
        LET stats == call.returned
            pos(i) == CHOOSE k \in EntriesFor(stats, statuses[i].name) : TRUE
        IN  /\ \A i \in 1..Len(statuses) :
                  /\ Cardinality(EntriesFor(stats, statuses[i].name)) = 1
                  /\ (~\E r \in 1..Len(records) :
                          /\ records[r].statusName = statuses[i].name
                          /\ TouchesDay(records[r], now))
                     => stats[pos(i)].durationS = 0
            /\ \A i, j \in 1..Len(statuses) : i < j => pos(i) < pos(j)

\* C6 witness: a result with an entry of zero seconds for a status without a
\* record today, in front of an entry with time on it
C6_Witness ==
    /\ call.op = "getTodayStats"
    /\ Len(call.returned) = Len(statuses)
    /\ \E k \in 1..Len(call.returned) :
          /\ call.returned[k].durationS = 0
          /\ \A r \in 1..Len(records) :
                records[r].statusName # call.returned[k].statusName
          /\ \E m \in (k + 1)..Len(call.returned) : call.returned[m].durationS > 0

\* Sum of the elapsed seconds of the records of today named `name`
RECURSIVE SumElapsedToday(_, _, _)
SumElapsedToday(recs, name, t) ==
    IF recs = <<>> THEN 0
    ELSE (IF Head(recs).statusName = name /\ TouchesDay(Head(recs), t)
          THEN getRecordDurationS(Head(recs), t) ELSE 0)
         + SumElapsedToday(Tail(recs), name, t)

\* C7: the durationS of each status's entry is the sum of elapsedSeconds over
\* the records of that status name whose startedAt or finishedAt is on the
\* current day; a record whose name is in no current status adds to no entry
\* and creates none.
C7_EntryIsSumOfTodaysRecords ==
    call.op = "getTodayStats" =>
        LET stats == call.returned
        IN  /\ \A i \in 1..Len(statuses) :
                  \E k \in 1..Len(stats) :
                      /\ stats[k].statusName = statuses[i].name
                      /\ stats[k].durationS =
                            SumElapsedToday(records, statuses[i].name, now)
            /\ \A k \in 1..Len(stats) :
                  stats[k].statusName \in StatusNames(statuses)

\* C7 witness: a result whose entry adds up two records of today, computed
\* while a record of today carries a name that is in no current status
C7_Witness ==
    /\ call.op = "getTodayStats"
    /\ \E r \in 1..Len(records) :
          /\ records[r].statusName \notin StatusNames(statuses)
          /\ TouchesDay(records[r], now)
          /\ getRecordDurationS(records[r], now) > 0
    /\ \E k \in 1..Len(call.returned) :
          \E a, b \in 1..Len(records) :
              /\ a < b
              /\ records[a].statusName = call.returned[k].statusName
              /\ records[b].statusName = call.returned[k].statusName
              /\ TouchesDay(records[a], now) /\ TouchesDay(records[b], now)
              /\ getRecordDurationS(records[a], now) > 0
              /\ getRecordDurationS(records[b], now) > 0
              /\ call.returned[k].durationS >=
                    getRecordDurationS(records[a], now)
                    + getRecordDurationS(records[b], now)

\* C8: parsing the formatted string of a non-negative integer duration gives
\* the duration back.
C8_RoundTrip ==
    codecPc = "roundTrip" =>
        /\ parsed.ok
        /\ parsed.den = 1
        /\ parsed.num = durationS

\* C8 witness: a duration of an hour or more has gone through the formatter
\* (H:MM:SS) and the parser
C8_Witness ==
    /\ codecPc = "roundTrip"
    /\ durationS >= 3600
    /\ Len(durationString) = 7
    /\ parsed.ok

\* Texts of the form SS, M:SS or H:MM:SS: one to three parts, all digits
IsDurationForm(str) ==
    /\ Len(split(str)) \in 1..3
    /\ \A i \in 1..Len(split(str)) : split(str)[i] # <<>> /\ AllDigits(split(str)[i])

\* C9: for a text t of one to three parts of digits, parsing "-" + t gives
\* the negation of parsing t, also when the first part of t is 0.
C9_LeadingMinusNegates ==
    (codecPc = "parsedNegated" /\ IsDurationForm(Tail(durationString))) =>
        /\ parsedPlain.ok /\ parsedPlain.den = 1
        /\ parsed.ok /\ parsed.den = 1
        /\ parsed.num = -parsedPlain.num

\* C9 witness: "-0:5" parsed after "0:5"
C9_Witness ==
    /\ codecPc = "parsedNegated"
    /\ durationString = <<"-", "0", ":", "5">>
    /\ parsedPlain.ok /\ parsedPlain.num = 5
    /\ parsed.ok /\ parsed.num = -5

\* A part that is an integer: an optional sign and one or more digits
\* (blanks around it allowed)
IsIntegerText(part) ==
    LET t == TrimEnd(TrimStart(part))
        body == IF t # <<>> /\ Head(t) \in {"-", "+"} THEN Tail(t) ELSE t
    IN  body # <<>> /\ AllDigits(body)

\* C10 as stated: the parser throws for every text with a part that is not
\* an integer and for every text of more than 3 parts; it returns a value
\* only for 1 to 3 integer parts.
C10_RejectsNonIntegerParts ==
    (codecPc \in {"parsedText", "parsedNegated"}) =>
        (parsed.ok =>
            /\ Len(split(durationString)) \in 1..3
            /\ \A i \in 1..Len(split(durationString)) :
                  IsIntegerText(split(durationString)[i]))

\* The prompt returned nothing, or a text that the parser rejects
IsRejected(text) == text = <<>> \/ ~getDurationSByDurationString(text).ok

\* C11: in the duration edit flow, when the text entered is rejected by the
\* parser, or the prompt is cancelled or left empty, the edit of the current
\* record is not called and records and statuses are what they were before
\* the prompt.
C11_RejectedTextLeavesStore ==
    [][ (call'.op = "durationClick" /\ steps' # steps
            /\ (call'.err = "cancelled" \/ IsRejected(durationString')))
        => (/\ call'.err # "none"
            /\ records' = records
            /\ statuses' = statuses) ]_vars

\* A text was rejected by the parser in a store that has a closed record
\* and whose current record was started by a click
C11_Witness ==
    /\ call.op = "durationClick"
    /\ call.err = "ParseError"
    /\ durationString # <<>>
    /\ ~parsed.ok
    /\ Len(records) >= 2
    /\ records[1].startedAt > LoadTime

\* durationS of every closed record is the whole seconds from its startedAt
\* to its finishedAt
ClosedAsTimed(recs) ==
    \A j \in 1..Len(recs) :
        (IsClosed(recs[j]) /\ IsSome(recs[j].durationS)) =>
            Val(recs[j].durationS) =
                differenceInSeconds(Val(recs[j].finishedAt), recs[j].startedAt)

\* Every closed record of the new list is a closed record of the old list,
\* field for field, or the record that start has just closed
ClosedRecordsKept ==
    \A j \in 1..Len(records') :
        IsClosed(records'[j]) =>
            \/ records'[j] \in { r \in Range(records) : IsClosed(r) }
            \/ /\ StartReturned(call')
               /\ j = 2
               /\ records # <<>>
               /\ IsOpen(records[1])
               /\ records'[2].statusName = records[1].statusName
               /\ records'[2].startedAt = records[1].startedAt

\* C12 as stated: once a record has been closed by start, its durationS is
\* the elapsed seconds between its startedAt and its finishedAt as of the
\* close, and no later start, edit, pruning or resetStatuses changes the
\* durationS, startedAt or finishedAt of that record while it is in the list.
C12_AsStated ==
    [][ ClosedAsTimed(records') /\ ClosedRecordsKept ]_vars

\* C13: after resetStore, from any reachable state, the store is a new
\* store's initial snapshot up to timestamps: statuses is the default list
\* and records is one open record for the idle status, started at the time
\* of the reset, with no durationS.
C13_ResetGivesInitialSnapshot ==
    (call.op = "resetStore") =>
        /\ call.err = "none"
        /\ statuses = InitialStatuses
        /\ Len(records) = 1
        /\ \E i \in 1..Len(statuses) :
              /\ statuses[i].type = "nothing"
              /\ records[1].statusName = statuses[i].name
        /\ records[1].startedAt = now
        /\ records[1].finishedAt = None
        /\ records[1].durationS = None

\* A reset some time after the page was loaded
C13_Witness ==
    /\ call.op = "resetStore"
    /\ now > LoadTime + TicksPerDay
    /\ Len(records) = 1

\* C14 as stated: in every reachable state the record list is ordered
\* newest-first, each record's startedAt being not earlier than the
\* startedAt of the record that follows it.
C14_AsStated ==
    \A i \in 1..(Len(records) - 1) :
        records[i].startedAt >= records[i + 1].startedAt

\* C14, amended: the list is ordered newest-first by the time the records
\* were closed: of two closed records, the one nearer the head has the later
\* or equal finishedAt.
C14_NewestFirstByFinishedAt ==
    \A i, j \in 1..Len(records) :
        (i < j /\ IsClosed(records[i]) /\ IsClosed(records[j])) =>
            Val(records[i].finishedAt) >= Val(records[j].finishedAt)

\* Two records closed after the page was loaded, the later one started
\* before the earlier one
C14_Witness ==
    /\ Len(records) >= 3
    /\ IsClosed(records[2])
    /\ IsClosed(records[3])
    /\ Val(records[3].finishedAt) > LoadTime
    /\ Val(records[2].finishedAt) > Val(records[3].finishedAt)
    /\ records[2].startedAt < records[3].startedAt

\* C15 as stated: currentStatus returns the status whose name is the current
\* record's statusName when there is one; otherwise the idle-kind status if
\* there is one, else the first status of the list; it fails with
\* InvariantViolation only when statuses is empty, and does fail then.
C15_AsStated ==
    (call.op = "getCurrentStatus") =>
        LET named == FindStatus(statuses, records[1].statusName)
            idle == { i \in 1..Len(statuses) : statuses[i].type = "nothing" }
        IN  IF statuses = <<>>
            THEN call.err = "InvariantViolation"
            ELSE /\ call.err = "none"
                 /\ \E i \in 1..Len(statuses) :
                       /\ call.returned = Some(statuses[i])
                       /\ IF named # {} THEN i \in named
                          ELSE IF idle # {}
                          THEN i \in idle /\ \A k \in idle : i <= k
                          ELSE i = 1

\* C16: updateCurrentRecordStartedAtByDurationS changes only the startedAt
\* of records[0]: the current record gets no durationS and no finishedAt and
\* stays open; statuses, the number of records and every record behind the
\* current one are unchanged.
C16_EditChangesOnlyStartedAt ==
    [][ (/\ call'.op = "updateCurrentRecordStartedAtByDurationS"
         /\ call'.err = "none"
         /\ steps' # steps)
        => (/\ statuses' = statuses
            /\ Len(records') = Len(records)
            /\ \A i \in 2..Len(records) : records'[i] = records[i]
            /\ records'[1].statusName = records[1].statusName
            /\ records'[1].finishedAt = records[1].finishedAt
            /\ records'[1].durationS = records[1].durationS
            /\ IsOpen(records'[1])
            /\ records'[1].durationS = None) ]_vars

\* An edit has moved the startedAt of a current record that has closed
\* records behind it
C16_Witness ==
    /\ call.op = "updateCurrentRecordStartedAtByDurationS"
    /\ call.err = "none"
    /\ call.newDurationS = 65
    /\ Len(records) >= 3
    /\ records[1].startedAt < now - 60 * TicksPerS
    /\ IsClosed(records[2])

\* C17: resetStatuses replaces statuses with the default list and leaves
\* records unchanged, in any store state, those where records name statuses
\* absent from the default list included.
C17_ResetStatusesKeepsRecords ==
    [][ (call'.op = "resetStatuses" /\ steps' # steps)
        => (/\ statuses' = InitialStatuses
            /\ records' = records) ]_vars

\* resetStatuses has returned in a store with several records, one of them
\* for a status that the default list does not have
C17_Witness ==
    /\ call.op = "resetStatuses"
    /\ statuses = InitialStatuses
    /\ Len(records) >= 3
    /\ \E i \in 1..Len(records) :
          records[i].statusName \notin StatusNames(InitialStatuses)

\* C18: pruning runs as part of every successful start: in the state left by
\* start no closed record, the one just closed included, has an absolute
\* elapsed duration under 3 seconds or a finishedAt older than 30 days.
C18_StartLeavesNoBadRecord ==
    StartReturned(call) =>
        \A r \in Range(records) :
            IsClosed(r) =>
                /\ ~(Abs(getRecordDurationS(r, now)) < tooShortDurationS)
                /\ ~(now - Val(r.finishedAt) > tooOldDays * TicksPerDay)

\* A start whose pruning removed both the record just closed and an older
\* one
C18_Witness ==
    /\ StartReturned(call)
    /\ call.pruned >= 2
    /\ Len(records) >= 2

IntervalTouchesDay(record, t) ==
    LET end == IF IsClosed(record) THEN Val(record.finishedAt) ELSE t
        dayOf(x) == FloorDiv(x, TicksPerDay)
    IN  dayOf(record.startedAt) <= dayOf(t) /\ dayOf(t) <= dayOf(end)

\* Sum of the elapsed seconds of the records named `name` whose interval
\* touches the day of t
RECURSIVE SumElapsedTouching(_, _, _)
SumElapsedTouching(recs, name, t) ==
    IF recs = <<>> THEN 0
    ELSE (IF Head(recs).statusName = name /\ IntervalTouchesDay(Head(recs), t)
          THEN getRecordDurationS(Head(recs), t) ELSE 0)
         + SumElapsedTouching(Tail(recs), name, t)

\* C20 as stated: todayStats counts every record whose interval touches the
\* current calendar day, the open current record included when it started
\* on an earlier day and is still running today.
C20_AsStated ==
    call.op = "getTodayStats" =>
        \A i \in 1..Len(statuses) :
            \E k \in 1..Len(call.returned) :
                /\ call.returned[k].statusName = statuses[i].name
                /\ call.returned[k].durationS =
                      SumElapsedTouching(records, statuses[i].name, now)

C22_OnePollingInterval ==
    /\ app.mounted =>
          /\ Cardinality(app.active) = 1
          /\ IsSome(app.interval)
          /\ app.active = {Val(app.interval)}
    /\ ~app.mounted => app.active = {}

\* App has been unmounted after its polling effect had run at least three
\* times
C22_Witness ==
    /\ ~app.mounted
    /\ app.nextId >= 4
    /\ app.active = {}
    /\ Len(records) >= 2

\* C23: in every state reached from the initial snapshot by start, edit,
\* removeBadRecords, resetStatuses and resetStore, statuses is the default
\* list and every record's statusName names a status of it; so
\* getCurrentStatus returns the status the current record names, not a
\* fallback, and getTodayStats returns one entry per status, none dropped or
\* appended for a name without a status.
C23_StatusesDefaultAndNamesResolve ==
    /\ statuses = InitialStatuses
    /\ \A i \in 1..Len(records) :
          records[i].statusName \in StatusNames(statuses)
    /\ (call.op = "getCurrentStatus") =>
          /\ call.err = "none"
          /\ IsSome(call.returned)
          /\ Val(call.returned).name = records[1].statusName
    /\ (call.op = "getTodayStats") =>
          /\ Len(call.returned) = Len(statuses)
          /\ \A k \in 1..Len(statuses) :
                call.returned[k].statusName = statuses[k].name

\* getCurrentStatus has returned a status other than the idle one, for a
\* store with a closed record behind the current one
C23_Witness ==
    /\ call.op = "getCurrentStatus"
    /\ Len(records) >= 2
    /\ IsClosed(records[2])
    /\ IsSome(call.returned)
    /\ Val(call.returned).type = "something"
    /\ Val(call.returned).name = records[1].statusName

==========================================================================
